---- MODULE Spec2Model ----
(***************************************************************************)
(* Peer registry of the "seven" signaling server: the LRU store `cache`,   *)
(* the bounded-retry sampler (genGoodRandom / pickSome) and the            *)
(* registration operation registerJSON, one action per step of the code.   *)
(***************************************************************************)
EXTENDS Integers, Sequences, FiniteSets, TLC

(* ---------------------------- bounds ---------------------------------- *)
\* size handed to lru.New (1024 in the source), scaled down
Capacity == 2
\* number of distinct 128-bit identities clients use
NumIds == 3
\* number of successful registrations (readings of time.Now) in one run
MaxClock == 4
\* largest candidate slice handed to pickSome when it is checked on its own
MaxN == 4
\* largest amount handed to pickSome when it is checked on its own
MaxAmount == 3
\* number of registrations started in one concurrent run
MaxCalls == 3

(* ------------------------ program constants --------------------------- *)
\* pickSome(cache.Values(), 16)
Fanout == 16
MaxTriesSix == 5 + 1

\* maxTries := 5
MaxTries == 5

(* ------------------------------ data ---------------------------------- *)
Procs == {1, 2}
Sequential == {1}

Ids == 1..NumIds

\* Textual forms of a UUID that uuid.Parse accepts: hex digits in lower
\* case (the form uuid.String produces) and in upper case.
Forms == {"lower", "upper"}

NotAUuid == [form |-> "malformed", id |-> 0]

UuidTexts == [form : Forms, id : Ids] \cup {NotAUuid}

\* Address strings, as sequences of characters; <<>> is the empty string.
AddrTexts == {<<>>, <<"1">>, <<"2">>}

\* uuid.Parse: the identity behind a text, or an error.
Parse(s) ==
  IF s.form \in Forms THEN [ok |-> TRUE, uuid |-> s.id]
                      ELSE [ok |-> FALSE, uuid |-> 0]

\* UUID.String: always the lower-case form.
String(u) == [form |-> "lower", id |-> u]

EntryForm(u, a) == [Uuid |-> u, Address |-> a]

Entry(u, a, t) == [uuid |-> u, address |-> a, lastSeen |-> t]

ToEntryJsonNoAddress(e) == EntryForm(String(e.uuid), <<>>)

ToEntryJson(e) == EntryForm(String(e.uuid), e.address)

NoForm == EntryForm(NotAUuid, <<>>)

NoEntry == Entry(0, <<>>, 0)

(* ---------------------------- LRU store ------------------------------- *)
\* The store is the list of its (key, value) pairs, oldest first.
Contains(c, k) == \E i \in 1..Len(c) : c[i].key = k

Remove(c, k) == SelectSeq(c, LAMBDA x : x.key # k)

RemoveNewest(c) == SubSeq(c, 1, Len(c) - 1)

RemoveOldestTwice(c) == Tail(Tail(c))

RemoveOldest(c) == Tail(c)

NeedsEvictLate(c) == Len(c) > Capacity + 1

NeedsEvict(c) == Len(c) > Capacity

AddNoTouch(c, k, v) ==
  IF Contains(c, k)
    THEN [i \in 1..Len(c) |->
            IF c[i].key = k THEN [key |-> k, value |-> v] ELSE c[i]]
    ELSE LET n == Append(c, [key |-> k, value |-> v])
         IN  IF NeedsEvict(n) THEN RemoveOldest(n) ELSE n

\* Cache.Add: an existing key is overwritten and moved to the most recent
\* position; a new key is pushed and the oldest entry dropped on overflow.
Add(c, k, v) ==
  IF Contains(c, k)
    THEN Append(Remove(c, k), [key |-> k, value |-> v])
    ELSE LET n == Append(c, [key |-> k, value |-> v])
         IN  IF NeedsEvict(n) THEN RemoveOldest(n) ELSE n

\* Cache.Values: the values, oldest to newest.
Values(c) == [i \in 1..Len(c) |-> c[i].value]

(* ------------------------------ state --------------------------------- *)
VARIABLES
  cache,     \* the LRU store
  clock,     \* time.Now
  pc,        \* position of each handler
  json,      \* registerJSON's argument
  uuid,      \* the parsed identity
  values,    \* pickSome's candidates (the snapshot)
  amount,    \* pickSome's countdown
  asked,     \* the amount pickSome was called with
  picked,    \* pickSome's result so far
  bad,       \* indices already chosen
  maxTries,  \* genGoodRandom's retry budget
  entries,   \* registerJSON's result
  err,       \* registerJSON's error
  entry,     \* registerJSON's entry, built before cache.Add
  seen,      \* history: identities registered so far
  fresh      \* history: every registration so far was of an unseen identity

vars == <<cache, clock, pc, json, uuid, values, amount, asked, picked, bad,
          maxTries, entries, err, entry, seen, fresh>>

Init ==
  /\ cache = <<>>
  /\ clock = 0
  /\ pc = [p \in Procs |-> "idle"]
  /\ json = [p \in Procs |-> NoForm]
  /\ uuid = [p \in Procs |-> 0]
  /\ values = [p \in Procs |-> <<>>]
  /\ amount = [p \in Procs |-> 0]
  /\ asked = [p \in Procs |-> 0]
  /\ picked = [p \in Procs |-> <<>>]
  /\ bad = [p \in Procs |-> {}]
  /\ maxTries = [p \in Procs |-> 0]
  /\ entries = [p \in Procs |-> <<>>]
  /\ err = [p \in Procs |-> "nil"]
  /\ entry = [p \in Procs |-> NoEntry]
  /\ seen = {}
  /\ fresh = TRUE

(* ---------------------------- registerJSON ---------------------------- *)
\* A client calls registerJSON(json); entries := []EntryForm{}.
Call(p) ==
  /\ pc[p] = "idle"
  /\ clock < MaxClock
  /\ \E u \in UuidTexts, a \in AddrTexts :
       json' = [json EXCEPT ![p] = EntryForm(u, a)]
  /\ entries' = [entries EXCEPT ![p] = <<>>]
  /\ pc' = [pc EXCEPT ![p] = "validate"]
  /\ UNCHANGED <<cache, clock, uuid, values, amount, asked, picked, bad,
                 maxTries, err, seen, fresh, entry>>

AddressEmptyNever(a) == Len(a) < 0

AddressEmpty(a) == Len(a) < 1

\* uuid.Parse(json.Uuid) and the address check; either failure returns.
Validate(p) ==
  /\ pc[p] = "validate"
  /\ LET r == Parse(json[p].Uuid) IN
       IF ~r.ok
         THEN /\ err' = [err EXCEPT ![p] = "uuid"]
              /\ pc' = [pc EXCEPT ![p] = "done"]
              /\ UNCHANGED uuid
         ELSE IF AddressEmpty(json[p].Address)
           THEN /\ err' = [err EXCEPT ![p] = "address"]
                /\ pc' = [pc EXCEPT ![p] = "done"]
                /\ UNCHANGED uuid
           ELSE /\ uuid' = [uuid EXCEPT ![p] = r.uuid]
                /\ pc' = [pc EXCEPT ![p] = "values"]
                /\ UNCHANGED err
  /\ UNCHANGED <<cache, clock, json, values, amount, asked, picked, bad,
                 maxTries, entries, seen, fresh, entry>>

SnapshotTouching(p) ==
  /\ pc[p] = "values"
  /\ values' = [values EXCEPT ![p] = Values(cache)]
  /\ cache' = IF cache = <<>> THEN cache
                              ELSE Append(Tail(cache), Head(cache))
  /\ amount' = [amount EXCEPT ![p] = Fanout]
  /\ asked' = [asked EXCEPT ![p] = Fanout]
  /\ pc' = [pc EXCEPT ![p] = "pickSome"]
  /\ UNCHANGED <<clock, json, uuid, picked, bad, maxTries, entries,
                 err, seen, fresh, entry>>

\* cache.Values(), handed to pickSome with amount 16.
Snapshot(p) ==
  /\ pc[p] = "values"
  /\ values' = [values EXCEPT ![p] = Values(cache)]
  /\ amount' = [amount EXCEPT ![p] = Fanout]
  /\ asked' = [asked EXCEPT ![p] = Fanout]
  /\ pc' = [pc EXCEPT ![p] = "pickSome"]
  /\ UNCHANGED <<cache, clock, json, uuid, picked, bad, maxTries, entries,
                 err, seen, fresh, entry>>

(* ------------------------------ pickSome ------------------------------ *)
PickSomeNoEarlyReturn(p) ==
  /\ pc[p] = "pickSome"
  /\ picked' = [picked EXCEPT ![p] = <<>>]
  /\ bad' = [bad EXCEPT ![p] = {}]
  /\ pc' = [pc EXCEPT ![p] = "loop"]
  /\ UNCHANGED <<cache, clock, json, uuid, values, amount, asked, maxTries,
                 entries, err, seen, fresh, entry>>

\* Entry of pickSome: empty picked and bad; no candidates returns at once.
PickSome(p) ==
  /\ pc[p] = "pickSome"
  /\ picked' = [picked EXCEPT ![p] = <<>>]
  /\ bad' = [bad EXCEPT ![p] = {}]
  /\ IF Len(values[p]) = 0
       THEN /\ entries' = [entries EXCEPT ![p] = <<>>]
            /\ pc' = [pc EXCEPT ![p] = "add"]
       ELSE /\ pc' = [pc EXCEPT ![p] = "loop"]
            /\ UNCHANGED entries
  /\ UNCHANGED <<cache, clock, json, uuid, values, amount, asked, maxTries,
                 err, seen, fresh, entry>>

MorePicksOffByOne(a) == a >= 0

MorePicks(a) == a > 0

\* Head of `for amount > 0`: call genGoodRandom or return picked.
PickLoop(p) ==
  /\ pc[p] = "loop"
  /\ IF MorePicks(amount[p])
       THEN /\ maxTries' = [maxTries EXCEPT ![p] = MaxTries]
            /\ pc' = [pc EXCEPT ![p] = "draw"]
            /\ UNCHANGED entries
       ELSE /\ entries' = [entries EXCEPT ![p] = picked[p]]
            /\ pc' = [pc EXCEPT ![p] = "add"]
            /\ UNCHANGED maxTries
  /\ UNCHANGED <<cache, clock, json, uuid, values, amount, asked, picked,
                 bad, err, seen, fresh, entry>>

IsBadInverted(b, r) == r \notin b

IsBad(b, r) == r \in b

OneTryLessForgotten(t) == t

\* maxTries--
OneTryLess(t) == t - 1

\* One pass of genGoodRandom's loop: p := rand.Intn(max).  A fresh index is
\* returned to pickSome, which marks it and appends values[idx]; a bad one
\* costs a try, and the last try returns -1, on which pickSome breaks.
Draw(p) ==
  /\ pc[p] = "draw"
  /\ maxTries[p] > 0
  /\ \E r \in 0..(Len(values[p]) - 1) :
       IF ~IsBad(bad[p], r)
         THEN /\ bad' = [bad EXCEPT ![p] = @ \cup {r}]
              /\ picked' = [picked EXCEPT ![p] =
                              Append(@, ToEntryJson(values[p][r + 1]))]
              /\ amount' = [amount EXCEPT ![p] = @ - 1]
              /\ pc' = [pc EXCEPT ![p] = "loop"]
              /\ UNCHANGED <<maxTries, entries>>
         ELSE /\ maxTries' = [maxTries EXCEPT ![p] = OneTryLess(@)]
              /\ IF OneTryLess(maxTries[p]) > 0
                   THEN UNCHANGED <<pc, entries>>
                   ELSE /\ entries' = [entries EXCEPT ![p] = picked[p]]
                        /\ pc' = [pc EXCEPT ![p] = "add"]
              /\ UNCHANGED <<bad, picked, amount>>
  /\ UNCHANGED <<cache, clock, json, uuid, values, asked, err, seen, fresh,
                 entry>>

(* ------------------------- insert and return -------------------------- *)
\* entry := Entry{uuid, json.Address, time.Now()}; cache.Add(json.Uuid, entry)
Insert(p) ==
  /\ pc[p] = "add"
  /\ entry' = [entry EXCEPT ![p] = Entry(uuid[p], json[p].Address, clock)]
  /\ cache' = Add(cache, json[p].Uuid, entry'[p])
  /\ clock' = clock + 1
  /\ err' = [err EXCEPT ![p] = "nil"]
  /\ pc' = [pc EXCEPT ![p] = "done"]
  /\ seen' = seen \cup {uuid[p]}
  /\ fresh' = (fresh /\ uuid[p] \notin seen)
  /\ UNCHANGED <<json, uuid, values, amount, asked, picked, bad, maxTries,
                 entries>>

\* return entries, err: the handler's frame is gone.
Return(p) ==
  /\ pc[p] = "done"
  /\ pc' = [pc EXCEPT ![p] = "idle"]
  /\ json' = [json EXCEPT ![p] = NoForm]
  /\ uuid' = [uuid EXCEPT ![p] = 0]
  /\ values' = [values EXCEPT ![p] = <<>>]
  /\ amount' = [amount EXCEPT ![p] = 0]
  /\ asked' = [asked EXCEPT ![p] = 0]
  /\ picked' = [picked EXCEPT ![p] = <<>>]
  /\ bad' = [bad EXCEPT ![p] = {}]
  /\ maxTries' = [maxTries EXCEPT ![p] = 0]
  /\ entries' = [entries EXCEPT ![p] = <<>>]
  /\ err' = [err EXCEPT ![p] = "nil"]
  /\ entry' = [entry EXCEPT ![p] = NoEntry]
  /\ UNCHANGED <<cache, clock, seen, fresh>>

(* --------------------------- specifications --------------------------- *)
\* Registrations one after another.
Next ==
  \E p \in Sequential :
    \/ Call(p)
    \/ Validate(p)
    \/ Snapshot(p)
    \/ PickSome(p)
    \/ PickLoop(p)
    \/ Draw(p)
    \/ Insert(p)
    \/ Return(p)

Spec == Init /\ [][Next]_vars

\* pickSome on its own: any slice of up to MaxN candidates, any amount up
\* to MaxAmount.
Candidates(n) == [i \in 1..n |-> Entry(i, <<"1">>, 0)]

InitPick ==
  /\ cache = <<>>
  /\ clock = 0
  /\ pc = [p \in Procs |-> IF p = 1 THEN "pickSome" ELSE "idle"]
  /\ json = [p \in Procs |-> NoForm]
  /\ uuid = [p \in Procs |-> 0]
  /\ \E n \in 0..MaxN :
       values = [p \in Procs |-> IF p = 1 THEN Candidates(n) ELSE <<>>]
  /\ \E k \in 0..MaxAmount :
       /\ amount = [p \in Procs |-> IF p = 1 THEN k ELSE 0]
       /\ asked = amount
  /\ picked = [p \in Procs |-> <<>>]
  /\ bad = [p \in Procs |-> {}]
  /\ maxTries = [p \in Procs |-> 0]
  /\ entries = [p \in Procs |-> <<>>]
  /\ err = [p \in Procs |-> "nil"]
  /\ entry = [p \in Procs |-> NoEntry]
  /\ seen = {}
  /\ fresh = TRUE

NextPick ==
  \/ PickSome(1)
  \/ PickLoop(1)
  \/ Draw(1)

SpecPick == InitPick /\ [][NextPick]_vars

(* ---------------------- concurrent registrations ---------------------- *)
\* Handlers run concurrently, one per request.  The store is an lru.Cache:
\* Values runs under its read lock, Add under its write lock, within which
\* the new element is pushed before the oldest one is removed.


\* the write lock is held by a handler inside cache.Add
Locked == \E q \in Procs : pc[q] = "adding"

CanReadUnlocked == TRUE

\* Cache.Values takes the read lock
CanRead == ~Locked

\* registrations started and not yet stamped by time.Now
Unstamped ==
  {q \in Procs : pc[q] \in {"validate", "values", "pickSome", "loop",
                            "draw", "add"}}

\* the requests of the concurrent runs: lower-case or malformed identity
\* text, one address or none
ConcTexts == {t \in UuidTexts : t.form # "upper"}

ConcAddrs == {<<>>, <<"1">>}

\* A client calls registerJSON(json) while other handlers may be running.
CallC(p) ==
  /\ pc[p] = "idle"
  /\ clock + Cardinality(Unstamped) < MaxCalls
  /\ \E u \in ConcTexts, a \in ConcAddrs :
       json' = [json EXCEPT ![p] = EntryForm(u, a)]
  /\ entries' = [entries EXCEPT ![p] = <<>>]
  /\ pc' = [pc EXCEPT ![p] = "validate"]
  /\ UNCHANGED <<cache, clock, uuid, values, amount, asked, picked, bad,
                 maxTries, err, seen, fresh, entry>>

\* cache.Values() under the read lock.
SnapshotC(p) ==
  /\ CanRead
  /\ Snapshot(p)

\* entry := Entry{uuid: uuid, address: json.Address, lastSeen: time.Now()}
MakeEntry(p) ==
  /\ pc[p] = "add"
  /\ entry' = [entry EXCEPT ![p] = Entry(uuid[p], json[p].Address, clock)]
  /\ clock' = clock + 1
  /\ pc' = [pc EXCEPT ![p] = "cacheAdd"]
  /\ UNCHANGED <<cache, json, uuid, values, amount, asked, picked, bad,
                 maxTries, entries, err, seen, fresh>>

AddPushOverwrite(c, k, v) ==
  IF Contains(c, k) \/ c = <<>>
    THEN Append(Remove(c, k), [key |-> k, value |-> v])
    ELSE [c EXCEPT ![Len(c)] = [key |-> k, value |-> v]]

\* First half of Cache.Add: an existing key is updated and moved to the
\* front, a new one is pushed.
AddPush(c, k, v) ==
  IF Contains(c, k)
    THEN Append(Remove(c, k), [key |-> k, value |-> v])
    ELSE Append(c, [key |-> k, value |-> v])

\* Second half of Cache.Add: the oldest element goes when the list is too
\* long.
AddTrim(c) == IF NeedsEvict(c) THEN RemoveOldest(c) ELSE c

\* cache.Add takes the write lock and pushes.
AddBegin(p) ==
  /\ pc[p] = "cacheAdd"
  /\ ~Locked
  /\ cache' = AddPush(cache, json[p].Uuid, entry[p])
  /\ pc' = [pc EXCEPT ![p] = "adding"]
  /\ seen' = seen \cup {uuid[p]}
  /\ fresh' = (fresh /\ uuid[p] \notin seen)
  /\ UNCHANGED <<clock, json, uuid, values, amount, asked, picked, bad,
                 maxTries, entries, err, entry>>

\* cache.Add evicts if needed and releases the lock; err is nil.
AddEnd(p) ==
  /\ pc[p] = "adding"
  /\ cache' = AddTrim(cache)
  /\ err' = [err EXCEPT ![p] = "nil"]
  /\ pc' = [pc EXCEPT ![p] = "done"]
  /\ UNCHANGED <<clock, json, uuid, values, amount, asked, picked, bad,
                 maxTries, entries, entry, seen, fresh>>

NextConc ==
  \E p \in Procs :
    \/ CallC(p)
    \/ Validate(p)
    \/ SnapshotC(p)
    \/ PickSome(p)
    \/ PickLoop(p)
    \/ Draw(p)
    \/ MakeEntry(p)
    \/ AddBegin(p)
    \/ AddEnd(p)
    \/ Return(p)

\* The store at the start of a concurrent run: empty, or holding up to
\* Capacity-1 peers that registered one after another before the run.
Earlier(n) ==
  [i \in 1..n |-> [key |-> String(i),
                   value |-> Entry(i, <<"1">>, i - n - 1)]]

InitConc ==
  /\ \E n \in 0..(Capacity - 1) :
       /\ cache = Earlier(n)
       /\ seen = 1..n
  /\ clock = 0
  /\ pc = [p \in Procs |-> "idle"]
  /\ json = [p \in Procs |-> NoForm]
  /\ uuid = [p \in Procs |-> 0]
  /\ values = [p \in Procs |-> <<>>]
  /\ amount = [p \in Procs |-> 0]
  /\ asked = [p \in Procs |-> 0]
  /\ picked = [p \in Procs |-> <<>>]
  /\ bad = [p \in Procs |-> {}]
  /\ maxTries = [p \in Procs |-> 0]
  /\ entries = [p \in Procs |-> <<>>]
  /\ err = [p \in Procs |-> "nil"]
  /\ entry = [p \in Procs |-> NoEntry]
  /\ fresh = TRUE

SpecConc == InitConc /\ [][NextConc]_vars

\* pickSome on its own, running to its return.
SpecPickFair == SpecPick /\ WF_vars(NextPick)

(* ------------------------------ claims -------------------------------- *)
Min(a, b) == IF a < b THEN a ELSE b

Range(s) == {s[i] : i \in 1..Len(s)}

\* a registration of p has returned successfully
Returned(p) == pc[p] = "done" /\ err[p] = "nil"

\* p is taking the step that inserts into the store
Inserting(p) == pc[p] = "add" /\ pc'[p] = "done"

StoredIds(c) == {c[i].value.uuid : i \in 1..Len(c)}

SampleIds(s) == {Parse(s[i].Uuid).uuid : i \in 1..Len(s)}

\* C1: the sample returned by a registration of identity i never contains
\* an entry whose identity is i, re-registrations included.
SelfExclusion ==
  \A p \in Procs :
    Returned(p) => Parse(json[p].Uuid).uuid \notin SampleIds(entries[p])

\* C2: no two stored entries have the same parsed identity.
IdentityUniqueness ==
  \A i, j \in 1..Len(cache) :
    i # j => cache[i].value.uuid # cache[j].value.uuid

\* C3: inserting an identity that is already in the store never increases
\* the store's length, and afterwards every stored entry of that identity
\* carries the address of this call.
Dedup ==
  [][\A p \in Procs :
       (Inserting(p) /\ uuid[p] \in StoredIds(cache)) =>
         /\ Len(cache') <= Len(cache)
         /\ \A i \in 1..Len(cache') :
              cache'[i].value.uuid = uuid[p] =>
                cache'[i].value.address = json[p].Address]_vars

\* C4: the number of stored entries is between 0 and the capacity in every
\* reachable state.
CapacityInvariant == Len(cache) >= 0 /\ Len(cache) <= Capacity

\* C4 witness: a new identity has been inserted into a full store.
CapacityWitness ==
  \E p \in Procs :
    /\ Returned(p)
    /\ Len(values[p]) = Capacity
    /\ Len(cache) = Capacity
    /\ uuid[p] \notin {values[p][i].uuid : i \in 1..Len(values[p])}

\* C5 as stated: with N <= 16 entries in the snapshot the returned sample
\* has exactly N elements, whatever the draws.
SampleLengthExact ==
  \A p \in Procs :
    (Returned(p) /\ Len(values[p]) <= Fanout) =>
      Len(entries[p]) = Len(values[p])

\* C5 amended: with N <= 16 entries in the snapshot the returned sample has
\* at least min(1, N) and at most N elements (so exactly N for N <= 1).
SampleLengthBounds ==
  \A p \in Procs :
    (Returned(p) /\ Len(values[p]) <= Fanout) =>
      /\ Len(entries[p]) >= Min(1, Len(values[p]))
      /\ Len(entries[p]) <= Min(Fanout, Len(values[p]))

\* C5 witness: a registration that found two entries returned only one.
SampleShortfallWitness ==
  \E p \in Procs :
    Returned(p) /\ Len(values[p]) = 2 /\ Len(entries[p]) = 1

\* C6: the sample never has more elements than the amount asked for (16 in
\* registerJSON) nor more than the N candidates, during and after sampling.
SampleUpperBound ==
  \A p \in Procs :
    /\ Len(picked[p]) <= asked[p]
    /\ Len(picked[p]) <= Len(values[p])
    /\ Len(entries[p]) <= asked[p]
    /\ Len(entries[p]) <= Len(values[p])

\* C6 witness: the sampler returned exactly the amount asked for although
\* more candidates were available.
SampleCappedWitness ==
  \E p \in Procs :
    /\ pc[p] = "add"
    /\ asked[p] > 0
    /\ Len(entries[p]) = asked[p]
    /\ Len(values[p]) > asked[p]

\* C7: no two elements of a returned sample carry the same identity.
NoDuplicateInSample ==
  \A p \in Procs :
    Returned(p) =>
      \A i, j \in 1..Len(entries[p]) :
        i # j => Parse(entries[p][i].Uuid).uuid # Parse(entries[p][j].Uuid).uuid

\* the store after Capacity+1 registrations of pairwise distinct identities
\* into the empty store: the first is absent, the later ones are present
EvictionScenario ==
  (fresh /\ clock = Capacity + 1) =>
    /\ Len(cache) = Capacity
    /\ Cardinality(StoredIds(cache)) = Capacity
    /\ {cache[i].value.lastSeen : i \in 1..Len(cache)} = 1..Capacity
    /\ StoredIds(cache) \subseteq seen
    /\ Cardinality(seen \ StoredIds(cache)) = 1

\* C8: inserting a new identity into a full store evicts exactly one entry,
\* the one whose last registration is the oldest; and Capacity+1 distinct
\* identities registered into the empty store leave the first one absent
\* and the others present.
EvictionOrder ==
  [][/\ \A p \in Procs :
          (Inserting(p) /\ Len(cache) = Capacity
                        /\ uuid[p] \notin StoredIds(cache)) =>
            \E i \in 1..Len(cache) :
              /\ \A j \in 1..Len(cache) :
                   cache[i].value.lastSeen <= cache[j].value.lastSeen
              /\ \E n \in Range(cache') :
                   /\ n.key = json[p].Uuid
                   /\ n \notin Range(cache)
                   /\ Range(cache') = (Range(cache) \ {cache[i]}) \cup {n}
     /\ EvictionScenario']_vars

\* C8 witness: Capacity+1 distinct identities have been registered into the
\* empty store.
EvictionWitness ==
  /\ fresh
  /\ clock = Capacity + 1
  /\ \E p \in Procs : Returned(p) /\ Len(values[p]) = Capacity

\* identity text that does not parse, or empty address
Rejected(j) == j.Uuid.form \notin {"lower", "upper"} \/ j.Address = <<>>

\* C9: a registration with an unparsable identity or an empty address
\* returns an error and an empty sample at once, takes no snapshot and leaves
\* the store's contents and order as they were.
ValidationLeavesStore ==
  [][\A p \in Procs :
       /\ (pc[p] = "validate" /\ pc'[p] # pc[p] /\ Rejected(json[p])) =>
            /\ pc'[p] = "done"
            /\ err'[p] # "nil"
            /\ entries'[p] = <<>>
            /\ values'[p] = values[p]
            /\ cache' = cache
       /\ (pc[p] = "done" /\ pc'[p] # pc[p] /\ err[p] # "nil") =>
            cache' = cache]_vars

\* C9 witness: a rejected registration has returned while the store holds
\* entries.
ValidationWitness ==
  \E p \in Procs :
    /\ pc[p] = "done"
    /\ err[p] # "nil"
    /\ entries[p] = <<>>
    /\ Len(cache) > 0

\* C10: inserting an identity already present in a full store evicts no
\* entry (the stored identities are unchanged) and leaves that identity in
\* the most recently used position.
TouchWithoutEvict ==
  [][\A p \in Procs :
       (Inserting(p) /\ Len(cache) = Capacity
                     /\ uuid[p] \in StoredIds(cache)) =>
         /\ StoredIds(cache') = StoredIds(cache)
         /\ cache'[Len(cache')].value.uuid = uuid[p]]_vars

\* C11: every element of the sample returned by a registration is the
\* public form (identity and address) of an entry that was in the store
\* before this registration's own insert and eviction.
SampleFromSnapshot ==
  [][\A p \in Procs :
       Inserting(p) =>
         \A i \in 1..Len(entries[p]) :
           \E j \in 1..Len(cache) :
             /\ entries[p][i].Uuid = [form |-> "lower",
                                       id |-> cache[j].value.uuid]
             /\ entries[p][i].Address = cache[j].value.address]_vars

\* C11 witness: a registration into a full store returned the entry that it
\* evicted itself.
EvictedInSampleWitness ==
  \E p \in Procs :
    /\ Returned(p)
    /\ Len(values[p]) = Capacity
    /\ \E i \in 1..Len(entries[p]) :
         Parse(entries[p][i].Uuid).uuid \notin StoredIds(cache)

\* C12: in every interleaving of concurrent registrations at most one insert
\* is in progress, no snapshot shows a partially applied insert (more than
\* Capacity entries, or one key twice), and the store is within its capacity
\* whenever no insert is in progress.
SerializedStore ==
  /\ Cardinality({q \in Procs : pc[q] = "adding"}) <= 1
  /\ Len(cache) <= Capacity + 1
  /\ (\A q \in Procs : pc[q] # "adding") => Len(cache) <= Capacity
  /\ \A p \in Procs :
       /\ Len(values[p]) <= Capacity
       /\ \A i, j \in 1..Len(values[p]) :
            i # j => values[p][i].uuid # values[p][j].uuid

\* C12 witness: one handler is about to take its snapshot while another is
\* inside cache.Add with the pushed element not yet trimmed.
SerializedWitness ==
  \E p, q \in Procs :
    /\ pc[p] = "values"
    /\ pc[q] = "adding"
    /\ Len(cache) = Capacity + 1

\* C13: a pick makes at most 5 draws; a miss on the fifth returns at once
\* the entries collected so far; and a result shorter than min(amount, N)
\* only comes from such an exhausted pick, after at least one entry.
AbandonOnExhaustion ==
  [][\A p \in Procs :
       /\ pc[p] = "draw" => (maxTries[p] >= 1 /\ maxTries[p] <= 5)
       /\ (pc[p] = "draw" /\ maxTries[p] = 1 /\ bad'[p] = bad[p]
                          /\ maxTries'[p] # maxTries[p]) =>
            /\ pc'[p] = "add"
            /\ picked'[p] = picked[p]
            /\ entries'[p] = picked[p]
       /\ (pc[p] # "add" /\ pc'[p] = "add"
             /\ Len(entries'[p]) < Min(asked[p], Len(values[p]))) =>
            /\ pc[p] = "draw"
            /\ maxTries[p] = 1
            /\ maxTries'[p] = 0
            /\ Len(entries'[p]) >= 1]_vars

\* C13 witness: the sampler returned one entry although three candidates
\* and an amount of three allowed more.
ExhaustedWitness ==
  \E p \in Procs :
    /\ pc[p] = "add"
    /\ maxTries[p] = 0
    /\ Len(values[p]) = 3
    /\ asked[p] = 3
    /\ Len(entries[p]) = 1

\* C14: pickSome returns, for every N, every amount and every sequence of
\* draws.
PickTerminates == <>(pc[1] = "add")

\* C14 witness: with fewer candidates than the amount, the sampler returned
\* after choosing all of them and exhausting the next pick.
AllChosenWitness ==
  /\ pc[1] = "add"
  /\ Len(values[1]) > 0
  /\ Len(values[1]) < asked[1]
  /\ Len(entries[1]) = Len(values[1])
  /\ maxTries[1] = 0

\* C15: the snapshot and the sampling steps leave the store (contents and
\* order) as it is; only the insert step of a registration changes it.
SamplingLeavesStore ==
  [][/\ \A p \in Procs :
          (pc[p] \in {"values", "pickSome", "loop", "draw"}
             /\ pc'[p] \in {"pickSome", "loop", "draw", "add"}) =>
            cache' = cache
     /\ cache' # cache => \E p \in Procs : Inserting(p)]_vars

\* C15 witness: sampling has returned every entry of a full store and the
\* store is still exactly the snapshot.
SampledStoreWitness ==
  \E p \in Procs :
    /\ pc[p] = "add"
    /\ Len(entries[p]) = Capacity
    /\ Values(cache) = values[p]

\* C16: when two concurrent registrations of distinct identities have both
\* completed and the store had room for every identity registered so far,
\* both entries are in the store.
BothStored ==
  \A p, q \in Procs :
    (p # q /\ Returned(p) /\ Returned(q) /\ uuid[p] # uuid[q]
           /\ Cardinality(seen) <= Capacity) =>
      /\ \E i \in 1..Len(cache) :
           cache[i].key = json[p].Uuid /\ cache[i].value.uuid = uuid[p]
      /\ \E i \in 1..Len(cache) :
           cache[i].key = json[q].Uuid /\ cache[i].value.uuid = uuid[q]

\* C16 witness: two concurrent registrations of distinct identities have
\* completed, both are stored, and neither sample contains the other.
MissEachOtherWitness ==
  \E p, q \in Procs :
    /\ p # q
    /\ Returned(p)
    /\ Returned(q)
    /\ uuid[p] # uuid[q]
    /\ {uuid[p], uuid[q]} \subseteq StoredIds(cache)
    /\ uuid[q] \notin SampleIds(entries[p])
    /\ uuid[p] \notin SampleIds(entries[q])

\* C17: a valid registration into an empty store never reaches the
\* sampler's loop, so it draws nothing, returns an empty sample with
\* success, and leaves exactly its own entry in the store.
EmptyStoreRegistration ==
  \A p \in Procs :
    /\ pc[p] \in {"loop", "draw"} => Len(values[p]) > 0
    /\ (Returned(p) /\ Len(values[p]) = 0) =>
         /\ entries[p] = <<>>
         /\ bad[p] = {}
         /\ maxTries[p] = 0
         /\ Len(cache) = 1
         /\ cache[1].key = json[p].Uuid
         /\ cache[1].value.address = json[p].Address

\* C17 witness: a registration into the empty store has returned.
EmptyStoreWitness ==
  \E p \in Procs :
    Returned(p) /\ Len(values[p]) = 0 /\ Len(cache) = 1

\* C18: the insert of a registration of text t with address a leaves an
\* entry under t with address a in the most recent position, and an entry
\* that has seen fewer than Capacity-1 later registrations survives the
\* insert of any other text.
RegistrationPostcondition ==
  [][\A p \in Procs :
       Inserting(p) =>
         /\ Len(cache') >= 1
         /\ cache'[Len(cache')].key = json[p].Uuid
         /\ cache'[Len(cache')].value.address = json[p].Address
         /\ \A i \in 1..Len(cache) :
              (cache[i].key # json[p].Uuid
                 /\ clock - cache[i].value.lastSeen <= Capacity - 1) =>
                cache[i] \in Range(cache')]_vars

\* C18 witness: an entry is still in the store after Capacity-1 later
\* registrations of other new identities.
SurvivorWitness ==
  \E p \in Procs :
    /\ Returned(p)
    /\ fresh
    /\ Len(cache) = Capacity
    /\ \E i \in 1..Len(cache) : clock - cache[i].value.lastSeen = Capacity

\* C19: every step changes the number of stored entries by 0 or +1, and
\* once it equals the capacity it stays there.
StoreNeverShrinks ==
  [][/\ Len(cache') \in {Len(cache), Len(cache) + 1}
     /\ Len(cache) = Capacity => Len(cache') = Capacity]_vars

\* C19 witness: an identity of the snapshot has been registered again into
\* a full store, which is still full.
FullAfterRepeatWitness ==
  \E p \in Procs :
    /\ Returned(p)
    /\ Len(values[p]) = Capacity
    /\ uuid[p] \in {values[p][i].uuid : i \in 1..Len(values[p])}
    /\ Len(cache) = Capacity

====
